---- MODULE Spec2Model ----
(***************************************************************************)
(* Model of the site-generator content pipeline:                           *)
(*   packager/package_site.py   (load_json, clean_md, guess_title_from_md, *)
(*                               build_record, the writers, main)          *)
(*   drivers/generate_pages_ollama.py  (render, call_ollama, main)         *)
(***************************************************************************)
EXTENDS Integers, Sequences, FiniteSets, TLC

VARIABLES
    brInput,    \* arguments of one build_record call (files already located)
    brResult,   \* what the call produced: a record, or an exception
    brDone      \* the call has been made

brVars == <<brInput, brResult, brDone>>

VARIABLES
    extracted,   \* files under EXTRACTOR_DIR
    analysisDir, \* files under ANALYSIS_DIR
    pagesOut,    \* build/pack/pages: page id -> per-page document
    siteMd,      \* build/pack/site.md, and the run that wrote it
    siteJsonl,   \* build/pack/site.jsonl, and the run that wrote it
    summaryMd,   \* build/pack/summary.md
    pc,          \* where the packager's main is
    md_files,    \* main's md_files, in discovery order
    records,     \* main's records
    exitCode,    \* exit status of the packager's last run
    runs,        \* packager runs started
    allCompleted,\* no packager run so far ended in an exception
    dpc,         \* where the driver's main is
    dfiles,      \* the driver's files still to process
    dcount,      \* page documents the driver found
    genOut,      \* generation output directory: page id -> text written
    dexit        \* exit status of the driver

runVars ==
    <<extracted, analysisDir, pagesOut, siteMd, siteJsonl, summaryMd, pc, md_files,
      records, exitCode, runs, allCompleted, dpc, dfiles, dcount, genOut, dexit>>

VARIABLES
    CONF,       \* the driver's configuration: placeholder name -> text
    rText,      \* render's text argument
    rCtx,       \* render's ctx argument, in the order of its keys
    rResult,    \* what the call produced: the text, or an exception
    rDone       \* the call has been made

renderVars == <<CONF, rText, rCtx, rResult, rDone>>

(***************************************************************************)
(* Parsed JSON values.  Every value is a record of one layout: k the JSON  *)
(* kind, n the number, s the string, l the items of a list or the entries  *)
(* of a mapping.  "missing" is a key that an enclosing mapping lacks.      *)
(***************************************************************************)
Missing == [k |-> "missing", n |-> 0, s |-> "", l |-> <<>>]
Null    == [k |-> "null",    n |-> 0, s |-> "", l |-> <<>>]
Num(n)  == [k |-> "num",     n |-> n, s |-> "", l |-> <<>>]
Str(s)  == [k |-> "str",     n |-> 0, s |-> s,  l |-> <<>>]
List(l) == [k |-> "list",    n |-> 0, s |-> "", l |-> l]
Map(l)  == [k |-> "map",     n |-> 0, s |-> "", l |-> l]

\* Items of a JSON list: a string, a mapping (with the keys the packager
\* reads), a key/value entry of a mapping, or anything else (number, null, list).
\* A mapping is a function from the keys it holds to their values.
EmptyDict == << >>
ElemStr(s)  == [k |-> "str",   s |-> s,  d |-> EmptyDict]
ElemMap(d)  == [k |-> "map",   s |-> "", d |-> d]
ElemPair(key, value) == [k |-> "pair", s |-> key, d |-> [value |-> value]]
ElemOther   == [k |-> "other", s |-> "", d |-> EmptyDict]

\* Python truthiness of a value: None, 0, "", [] and {} are falsy.
Truthy(v) ==
    CASE v.k = "num"  -> v.n # 0
      [] v.k = "str"  -> v.s # ""
      [] v.k = "list" -> v.l # <<>>
      [] v.k = "map"  -> v.l # <<>>
      [] OTHER        -> FALSE

\* Python's `a or b`: a when a is truthy, else b (whatever b is).
PyOr(a, b) == IF Truthy(a) THEN a ELSE b

\* Python's str(v) for the scalars the packager formats.
PyStr(v) ==
    CASE v.k = "str" -> v.s
      [] v.k = "num" -> ToString(v.n)
      [] OTHER       -> "None"

\* dict.get(key) and dict.get(key, default)
Get(d, key) == IF key \in DOMAIN d THEN d[key] ELSE Null
GetDefault(d, key, default) == IF key \in DOMAIN d THEN d[key] ELSE default

\* The top-level value json.loads returns: a mapping, a list, or a scalar.
DictPV(d) == [shape |-> "dict",   d |-> d,         l |-> <<>>]
ListPV(l) == [shape |-> "list",   d |-> EmptyDict, l |-> l]
ScalarPV  == [shape |-> "scalar", d |-> EmptyDict, l |-> <<>>]

\* An artifact file as the packager finds it: absent, unparsable, or parsable.
NoFile      == [exists |-> FALSE, parses |-> FALSE, pv |-> DictPV(EmptyDict)]
BadFile     == [exists |-> TRUE,  parses |-> FALSE, pv |-> DictPV(EmptyDict)]
JsonFile(v) == [exists |-> TRUE,  parses |-> TRUE,  pv |-> v]

\* load_json: the parsed value, whatever its shape; {} when reading or
\* parsing raises (a missing file, Path(), malformed JSON).
load_json(f) == IF f.exists /\ f.parses THEN f.pv ELSE DictPV(EmptyDict)

(***************************************************************************)
(* Text.  Markdown is a sequence of one-character strings.                 *)
(***************************************************************************)
NL == "\n"
IsWs(c) == c \in {" ", NL}

RECURSIVE Join(_)
Join(cs) == IF cs = <<>> THEN "" ELSE Head(cs) \o Join(Tail(cs))

\* re.sub(r"\n{3,}", "\n\n", md): run counts the newlines just before cs.
RECURSIVE CollapseNL(_, _)
CollapseNL(cs, run) ==
    IF cs = <<>> THEN <<>>
    ELSE IF Head(cs) = NL
         THEN (IF run >= 2 THEN <<>> ELSE <<NL>>) \o CollapseNL(Tail(cs), run + 1)
         ELSE <<Head(cs)>> \o CollapseNL(Tail(cs), 0)

RECURSIVE LStrip(_)
LStrip(cs) == IF cs # <<>> /\ IsWs(Head(cs)) THEN LStrip(Tail(cs)) ELSE cs

RECURSIVE RStrip(_)
RStrip(cs) ==
    IF cs # <<>> /\ IsWs(cs[Len(cs)]) THEN RStrip(SubSeq(cs, 1, Len(cs) - 1)) ELSE cs

\* str.strip()
Strip(cs) == RStrip(LStrip(cs))

clean_md(md) == Strip(CollapseNL(md, 0))

\* Number of whitespace characters of md from position p on.
RECURSIVE WsRun(_, _)
WsRun(md, p) == IF p <= Len(md) /\ IsWs(md[p]) THEN 1 + WsRun(md, p + 1) ELSE 0

\* Last position of the line that holds position p (p is not a newline).
RECURSIVE LineEnd(_, _)
LineEnd(md, p) == IF p < Len(md) /\ md[p + 1] # NL THEN LineEnd(md, p + 1) ELSE p

\* The \s+ lengths with which ^#{m}\s+(.+)$ (re.M) matches at position i:
\* i starts a line, m '#' follow, then w >= 1 whitespace characters (line
\* breaks included) and at least one character that is not a newline.
HeadingWs(md, m, i) ==
    IF /\ (i = 1 \/ md[i - 1] = NL)
       /\ i + m - 1 <= Len(md)
       /\ \A j \in i .. (i + m - 1) : md[j] = "#"
    THEN {w \in 1 .. WsRun(md, i + m) : i + m + w <= Len(md) /\ md[i + m + w] # NL}
    ELSE {}

Max(S) == CHOOSE x \in S : \A y \in S : y <= x
Min(S) == CHOOSE x \in S : \A y \in S : x <= y

\* re.search of the pattern with m '#': the positions where it matches.
HeadingAt(md, m) == {i \in 1 .. Len(md) : HeadingWs(md, m, i) # {}}

\* m.group(1) of the leftmost match, \s+ greedy and (.+) to the end of its line.
HeadingGroup(md, m) ==
    LET i == Min(HeadingAt(md, m))
        p == i + m + Max(HeadingWs(md, m, i))
    IN  SubSeq(md, p, LineEnd(md, p))

\* guess_title_from_md taking whichever of the two patterns matches earliest.
guess_title_earliest(md) ==
    IF HeadingAt(md, 1) = {} /\ HeadingAt(md, 2) = {} THEN ""
    ELSE IF HeadingAt(md, 2) = {} THEN Join(Strip(HeadingGroup(md, 1)))
    ELSE IF HeadingAt(md, 1) = {} THEN Join(Strip(HeadingGroup(md, 2)))
    ELSE IF Min(HeadingAt(md, 1)) < Min(HeadingAt(md, 2))
         THEN Join(Strip(HeadingGroup(md, 1)))
         ELSE Join(Strip(HeadingGroup(md, 2)))

\* guess_title_from_md: the level-1 pattern over the whole text first, then
\* the level-2 pattern; the first pattern that matches decides.
guess_title_from_md(md) ==
    IF HeadingAt(md, 1) # {} THEN Join(Strip(HeadingGroup(md, 1)))
    ELSE IF HeadingAt(md, 2) # {} THEN Join(Strip(HeadingGroup(md, 2)))
    ELSE ""

(***************************************************************************)
(* build_record                                                            *)
(***************************************************************************)
\* NormSection reading only the label/text keys, none of the aliases.
NormSection_NoAlias(s) ==
    CASE s.k = "map" ->
           << [label |-> PyOr(Get(s.d, "label"), Str("section")),
               text  |-> PyOr(Get(s.d, "text"), Str(""))] >>
      [] s.k = "str" -> << [label |-> Str("section"), text |-> Str(s.s)] >>
      [] OTHER -> <<>>

\* One pass of the normalization loop: a mapping gives label/text under the
\* accepted key aliases, a string gives the generic label, anything else
\* gives no entry.
NormSection(s) ==
    CASE s.k = "map" ->
           << [label |-> PyOr(PyOr(PyOr(Get(s.d, "label"), Get(s.d, "name")),
                                   Get(s.d, "type")),
                              Str("section")),
               text  |-> PyOr(PyOr(Get(s.d, "text"), Get(s.d, "content")), Str(""))] >>
      [] s.k = "str" -> << [label |-> Str("section"), text |-> Str(s.s)] >>
      [] OTHER -> <<>>

RECURSIVE NormSections(_)
NormSections(l) ==
    IF l = <<>> THEN <<>> ELSE NormSection(Head(l)) \o NormSections(Tail(l))

\* What `for s in sec_list` iterates: the items of a list, the keys of a
\* mapping.  (A string under a sections key is not among the inputs drawn.)
RECURSIVE EntryKeys(_)
EntryKeys(l) == IF l = <<>> THEN <<>> ELSE <<ElemStr(Head(l).s)>> \o EntryKeys(Tail(l))

Items(v) == IF v.k = "map" THEN EntryKeys(v.l) ELSE v.l

Iterable(v) == v.k \in {"list", "map"}

\* The three-way dispatch on the sections artifact (lines 64-72).
SecList(sections, analysis) ==
    IF sections.shape = "list" THEN List(sections.l)
    ELSE IF sections.shape = "dict"
         THEN PyOr(PyOr(Get(sections.d, "sections"), Get(analysis, "sections")), List(<<>>))
         ELSE PyOr(Get(analysis, "sections"), List(<<>>))

Structure(sections, analysis) ==
    IF sections.shape = "dict"
    THEN PyOr(PyOr(Get(sections.d, "structure"), Get(analysis, "structure")), List(<<>>))
    ELSE PyOr(Get(analysis, "structure"), List(<<>>))

\* recommendations: a mapping becomes "key: value" strings (lines 84-86).
RECURSIVE FormatEntries(_)
FormatEntries(l) ==
    IF l = <<>> THEN <<>>
    ELSE <<ElemStr(Head(l).s \o ": " \o PyStr(Head(l).d.value))>> \o FormatEntries(Tail(l))

Recommendations(analysis) ==
    LET recs == PyOr(Get(analysis, "recommendations"), List(<<>>))
    IN  IF recs.k = "map" THEN List(FormatEntries(recs.l)) ELSE recs

\* The resolved scalar fields (lines 51-61, 94).
ResolveUrl(meta, analysis) == PyOr(PyOr(Get(meta, "url"), Get(analysis, "url")), Str(""))

ResolveTitle(meta, analysis, md, stem) ==
    PyOr(PyOr(PyOr(Get(meta, "title"), Get(analysis, "title")),
              Str(guess_title_from_md(md))),
         Str(stem))

ResolvePageType(classify, analysis) ==
    PyOr(PyOr(Get(classify, "page_type"), Get(analysis, "page_type")), Str("other"))

ResolveScore(metrics, mkey, analysis, akey) ==
    PyOr(Get(metrics, mkey), Get(analysis, akey))

\* A call that raises returns no record.
NoRecord == << >>

Raised == [raised |-> TRUE, rec |-> NoRecord]

\* build_record(stem, md_path, meta_path, analysis_paths).  x.get on a value
\* that is no mapping raises AttributeError, iterating a number TypeError;
\* nothing in build_record catches either.
build_record(stem, mdRaw, metaF, analysisF, metricsF, classifyF, sectionsF) ==
    LET md       == clean_md(mdRaw)
        meta     == load_json(metaF)
        analysis == load_json(analysisF)
        metrics  == load_json(metricsF)
        classify == load_json(classifyF)
        sections == load_json(sectionsF)
    IN  IF \/ meta.shape # "dict" \/ analysis.shape # "dict"
           \/ metrics.shape # "dict" \/ classify.shape # "dict"
        THEN Raised
        ELSE LET sec_list == SecList(sections, analysis.d)
             IN  IF ~Iterable(sec_list) THEN Raised
                 ELSE [raised |-> FALSE,
                       rec |->
                        [id |-> stem,
                         url |-> ResolveUrl(meta.d, analysis.d),
                         title |-> ResolveTitle(meta.d, analysis.d, md, stem),
                         page_type |-> ResolvePageType(classify.d, analysis.d),
                         scores |->
                           [quality |-> ResolveScore(metrics.d, "quality",
                                                     analysis.d, "quality_score"),
                            readability |-> ResolveScore(metrics.d, "readability",
                                                         analysis.d, "readability"),
                            seo |-> ResolveScore(metrics.d, "seo",
                                                 analysis.d, "seo_score")],
                         readability |->
                           [flesch |-> ResolveScore(metrics.d, "flesch",
                                                    analysis.d, "flesch_score")],
                         structure |-> Structure(sections, analysis.d),
                         images |-> GetDefault(meta.d, "images", List(<<>>)),
                         links |-> GetDefault(meta.d, "links", List(<<>>)),
                         word_count |-> Get(meta.d, "word_count"),
                         reading_time_minutes |-> Get(meta.d, "reading_time_minutes"),
                         sections |-> NormSections(Items(sec_list)),
                         raw_markdown |-> Join(md),
                         recommendations |-> Recommendations(analysis.d),
                         related_pages |->
                           PyOr(Get(analysis.d, "related_pages"), List(<<>>))]]

(***************************************************************************)
(* The build_record calls examined: one family of inputs per concern.      *)
(***************************************************************************)
MaxLines == 3     \* lines of a markdown body
MaxSecs  == 2     \* items of a sections list

\* Lines a markdown body is made of.
MdLines ==
    { <<"#", " ", "A">>,                 \* level-1 heading
      <<"#", "#", " ", "B">>,            \* level-2 heading
      <<"#", "#", "#", " ", "C">>,       \* level-3 heading
      <<"#", " ", " ", "D", " ">>,       \* level-1 heading, padded
      <<"t">>,                           \* a paragraph
      <<>>,                              \* a blank line
      <<"#">>,                           \* a bare level-1 marker
      <<"#", "t">>,                      \* a tag, no heading
      <<" ", "#", " ", "E">> }           \* an indented marker

RECURSIVE JoinLines(_)
JoinLines(ls) ==
    IF ls = <<>> THEN <<>>
    ELSE IF Len(ls) = 1 THEN Head(ls)
    ELSE Head(ls) \o <<NL>> \o JoinLines(Tail(ls))

SeqsUpTo(S, n) == UNION {[1 .. m -> S] : m \in 0 .. n}

MdDocs == {JoinLines(ls) : ls \in SeqsUpTo(MdLines, MaxLines)} \ {<<>>}

PlainDoc == <<"#", " ", "A", NL, NL, NL, NL, "t">>

\* Candidate values of a resolved field in one source: of a text field
\* (url, title, page_type) and of a numeric field (the scores).
StrCands == {Missing, Null, Str(""), Str("x"), Str("y")}
NumCands == {Missing, Null, Num(0), Num(3), Num(7)}

With(d, key, v) ==
    IF v = Missing THEN d
    ELSE [x \in DOMAIN d \cup {key} |-> IF x = key THEN v ELSE d[x]]

MetaFull ==
    [url |-> Str("http://m"), title |-> Str("Meta"),
     images |-> List(<<ElemStr("i.png")>>), links |-> List(<<ElemStr("/a")>>),
     word_count |-> Num(120), reading_time_minutes |-> Num(1)]
AnalysisFull ==
    [url |-> Str("http://a"), title |-> Str("Analysed"),
     page_type |-> Str("service"), quality_score |-> Num(5),
     structure |-> List(<<ElemStr("h1")>>), sections |-> List(<<ElemStr("Hi")>>),
     recommendations |-> Map(<<ElemPair("seo", Str("add alt text"))>>),
     related_pages |-> List(<<ElemStr("about")>>)]
MetricsFull ==
    [quality |-> Num(8), readability |-> Num(6), seo |-> Num(4), flesch |-> Num(60)]
ClassifyFull == [page_type |-> Str("landing")]
SectionsFull ==
    [sections |-> List(<<ElemMap([name |-> Str("intro"), content |-> Str("Hi")])>>)]

\* The ways one artifact file can be: absent, unparsable, or any JSON shape.
Shapes(d) ==
    {NoFile, BadFile, JsonFile(DictPV(d)), JsonFile(ListPV(<<ElemStr("Hi")>>)),
     JsonFile(ScalarPV)}

DefaultIn ==
    [stem |-> "home", md |-> PlainDoc, meta |-> NoFile, analysis |-> NoFile,
     metrics |-> NoFile, classify |-> NoFile, sections |-> NoFile]

\* Every combination of present/absent artifacts, in every JSON shape.
ShapeInputs ==
    {[DefaultIn EXCEPT !.meta = a, !.analysis = b, !.metrics = c,
                       !.classify = d, !.sections = e] :
        a \in Shapes(MetaFull), b \in Shapes(AnalysisFull),
        c \in Shapes(MetricsFull), d \in Shapes(ClassifyFull),
        e \in Shapes(SectionsFull)}

\* Two sources of one resolved field, each holding any candidate value.
TwoSources(first, fkey, second, skey, cands) ==
    {[DefaultIn EXCEPT ![first]  = JsonFile(DictPV(With(EmptyDict, fkey, a))),
                       ![second] = JsonFile(DictPV(With(EmptyDict, skey, b)))] :
        a \in cands, b \in cands}

PrecedenceInputs ==
    TwoSources("meta", "url", "analysis", "url", StrCands)
      \cup TwoSources("meta", "title", "analysis", "title", StrCands)
      \cup {[x EXCEPT !.md = <<"t">>] :
               x \in TwoSources("meta", "title", "analysis", "title", StrCands)}
      \cup TwoSources("classify", "page_type", "analysis", "page_type", StrCands)
      \cup TwoSources("metrics", "quality", "analysis", "quality_score", NumCands)
      \cup TwoSources("metrics", "readability", "analysis", "readability", NumCands)
      \cup TwoSources("metrics", "seo", "analysis", "seo_score", NumCands)
      \cup TwoSources("metrics", "flesch", "analysis", "flesch_score", NumCands)

\* Bodies of every line make-up, no artifact supplying a title.
TitleInputs == {[DefaultIn EXCEPT !.md = doc] : doc \in MdDocs}

\* Section data: label/text pairs, "" a label that is not given.
SecLabels == {"", "intro"}
SecTexts  == {"", "Hi", "Yo"}
SecData   == SeqsUpTo(SecLabels \X SecTexts, MaxSecs)

\* The same data as (a) bare strings, (b) label/text mappings, (c) name/content
\* mappings.  Bare strings carry no label.
FormA(data) == [i \in 1 .. Len(data) |-> ElemStr(data[i][2])]
FormB(data) ==
    [i \in 1 .. Len(data) |->
        ElemMap(IF data[i][1] = "" THEN [text |-> Str(data[i][2])]
                ELSE [label |-> Str(data[i][1]), text |-> Str(data[i][2])])]
FormC(data) ==
    [i \in 1 .. Len(data) |->
        ElemMap(IF data[i][1] = "" THEN [content |-> Str(data[i][2])]
                ELSE [name |-> Str(data[i][1]), content |-> Str(data[i][2])])]

Unlabelled(data) == \A i \in 1 .. Len(data) : data[i][1] = ""

\* Items of a sections list: strings, mappings in either key convention, a
\* mapping labelled by type only, and a non-string, non-mapping item.
SecElems ==
    {FormA(<<p>>)[1] : p \in {""} \X SecTexts}
      \cup {FormB(<<p>>)[1] : p \in SecLabels \X SecTexts}
      \cup {FormC(<<p>>)[1] : p \in SecLabels \X SecTexts}
      \cup {ElemMap([type |-> Str("faq"), text |-> Str("Hi"), content |-> Str("Yo")]),
              ElemMap([label |-> Str(""), name |-> Str("intro"), text |-> Str("")]),
              ElemOther}

SecLists == SeqsUpTo(SecElems, MaxSecs)

\* The three accepted containers of a sections list, and with the analysis
\* artifact holding a list of its own besides.
AnalysisSecs == {Missing, List(<<ElemStr("An")>>)}

SectionInputs ==
    {[DefaultIn EXCEPT !.sections = JsonFile(ListPV(l)),
                       !.analysis = JsonFile(DictPV(With(EmptyDict, "sections", a)))] :
        l \in SecLists, a \in AnalysisSecs}
      \cup {[DefaultIn EXCEPT
                !.sections = JsonFile(DictPV(With(EmptyDict, "sections", List(l)))),
                !.analysis = JsonFile(DictPV(With(EmptyDict, "sections", a)))] :
              l \in SecLists, a \in AnalysisSecs}
      \cup {[DefaultIn EXCEPT
                !.sections = s,
                !.analysis = JsonFile(DictPV(With(EmptyDict, "sections", List(l))))] :
              l \in SecLists, s \in {NoFile, BadFile, JsonFile(ScalarPV)}}
      \cup {[DefaultIn EXCEPT
                !.sections = JsonFile(DictPV(With(EmptyDict, "sections", v)))] :
              v \in {Num(3), Null, Map(<<ElemPair("intro", Str("Hi"))>>)}}

BrInputs == ShapeInputs \cup PrecedenceInputs \cup TitleInputs \cup SectionInputs

BrInit ==
    /\ brInput \in BrInputs
    /\ brResult = Raised
    /\ brDone = FALSE

\* One call of build_record on the located files.
BuildRecord ==
    /\ ~brDone
    /\ brResult' = build_record(brInput.stem, brInput.md, brInput.meta,
                                brInput.analysis, brInput.metrics,
                                brInput.classify, brInput.sections)
    /\ brDone' = TRUE
    /\ UNCHANGED <<brInput, runVars, renderVars>>

BrNext == BuildRecord

\* No build_record call under examination.
BrIdle ==
    /\ brInput = DefaultIn
    /\ brResult = Raised
    /\ brDone = FALSE

\* Neither main is running and the directories are empty.
RunIdle ==
    /\ extracted = {} /\ analysisDir = {}
    /\ pagesOut = << >>
    /\ siteMd = [run |-> 0, header |-> <<>>, blocks |-> <<>>]
    /\ siteJsonl = [run |-> 0, lines |-> <<>>]
    /\ summaryMd = NoFile
    /\ pc = "idle" /\ md_files = <<>> /\ records = <<>>
    /\ exitCode = 0 /\ runs = 0 /\ allCompleted = TRUE
    /\ dpc = "idle" /\ dfiles = <<>> /\ dcount = 0
    /\ genOut = << >> /\ dexit = 0

vars == <<brVars, runVars, renderVars>>

(***************************************************************************)
(* Properties of build_record                                              *)
(***************************************************************************)
Built == brDone /\ ~brResult.raised
rec == brResult.rec

AllAbsent ==
    /\ ~brInput.meta.exists /\ ~brInput.analysis.exists /\ ~brInput.metrics.exists
    /\ ~brInput.classify.exists /\ ~brInput.sections.exists

RecordValues ==
    {rec.url, rec.title, rec.page_type, rec.scores.quality, rec.scores.readability,
     rec.scores.seo, rec.readability.flesch, rec.structure, rec.images, rec.links,
     rec.word_count, rec.reading_time_minutes, rec.recommendations, rec.related_pages}

\* C1: for every combination of present/absent artifacts, of any parsed JSON
\* shape, build_record returns normally with every field of the record
\* defined; with all artifacts absent every field but id, title and
\* raw_markdown holds its default.
C1_BuildRecordTotal ==
    brDone =>
      /\ ~brResult.raised
      /\ \A v \in RecordValues : v.k # "missing"
      /\ AllAbsent =>
           /\ rec.url = Str("") /\ rec.page_type = Str("other")
           /\ rec.scores = [quality |-> Null, readability |-> Null, seo |-> Null]
           /\ rec.readability = [flesch |-> Null]
           /\ rec.structure = List(<<>>) /\ rec.images = List(<<>>)
           /\ rec.links = List(<<>>) /\ rec.word_count = Null
           /\ rec.reading_time_minutes = Null /\ rec.sections = <<>>
           /\ rec.recommendations = List(<<>>) /\ rec.related_pages = List(<<>>)

\* Emptiness as the precedence rule words it: absent, null, an empty string,
\* an empty sequence or mapping.  A number is never empty.
ClaimEmpty(v) ==
    \/ v.k \in {"missing", "null"}
    \/ v.k = "str" /\ v.s = ""
    \/ v.k \in {"list", "map"} /\ v.l = <<>>

RECURSIVE FirstNonEmpty(_, _)
FirstNonEmpty(cands, default) ==
    IF cands = <<>> THEN default
    ELSE IF ClaimEmpty(Head(cands)) THEN FirstNonEmpty(Tail(cands), default)
    ELSE Head(cands)

\* The value a mapping holds under a key, Missing when it lacks the key.
Raw(d, key) == IF key \in DOMAIN d THEN d[key] ELSE Missing

InMeta     == load_json(brInput.meta).d
InAnalysis == load_json(brInput.analysis).d
InMetrics  == load_json(brInput.metrics).d
InClassify == load_json(brInput.classify).d

\* C2: each resolved field is the first non-empty candidate of its chain
\* (metadata, then analysis/classification/metrics, then the markdown, then
\* the default); a number in an earlier source, 0 included, is never
\* replaced by a later source.
C2_FirstNonEmptyWins ==
    Built =>
      /\ rec.url = FirstNonEmpty(<<Raw(InMeta, "url"), Raw(InAnalysis, "url")>>, Str(""))
      /\ rec.title = FirstNonEmpty(<<Raw(InMeta, "title"), Raw(InAnalysis, "title"),
                                     Str(guess_title_from_md(clean_md(brInput.md)))>>,
                                   Str(brInput.stem))
      /\ rec.page_type = FirstNonEmpty(<<Raw(InClassify, "page_type"),
                                         Raw(InAnalysis, "page_type")>>, Str("other"))
      /\ rec.scores.quality =
           FirstNonEmpty(<<Raw(InMetrics, "quality"), Raw(InAnalysis, "quality_score")>>,
                         Null)
      /\ rec.scores.readability =
           FirstNonEmpty(<<Raw(InMetrics, "readability"), Raw(InAnalysis, "readability")>>,
                         Null)
      /\ rec.scores.seo =
           FirstNonEmpty(<<Raw(InMetrics, "seo"), Raw(InAnalysis, "seo_score")>>, Null)
      /\ rec.readability.flesch =
           FirstNonEmpty(<<Raw(InMetrics, "flesch"), Raw(InAnalysis, "flesch_score")>>, Null)

\* The {label, text} entries section data stands for: an ungiven label is
\* the generic "section".
Canon(data) ==
    [i \in 1 .. Len(data) |->
        [label |-> Str(IF data[i][1] = "" THEN "section" ELSE data[i][1]),
         text  |-> Str(data[i][2])]]

\* The list of an accepted input shape: the sections artifact as a bare
\* list, as a mapping with a non-empty nested list, or, with no sections
\* artifact (or one with no nested list), the list of the analysis artifact.
SectionsIn == load_json(brInput.sections)
GivenSections ==
    IF SectionsIn.shape = "list" THEN SectionsIn.l
    ELSE IF SectionsIn.shape = "dict" /\ Raw(SectionsIn.d, "sections").k = "list"
                                      /\ Raw(SectionsIn.d, "sections").l # <<>>
         THEN Raw(SectionsIn.d, "sections").l
    ELSE Raw(InAnalysis, "sections").l

\* Wherever a sections key is given, it holds a sequence.
AcceptedShape ==
    /\ Raw(SectionsIn.d, "sections").k \in {"missing", "list"}
    /\ Raw(InAnalysis, "sections").k \in {"missing", "list"}

SectionData(l) == \A i \in 1 .. Len(l) : l[i].k \in {"str", "map"}

\* C3: the same section data as bare strings, as label/text mappings or as
\* name/content mappings normalizes to the same {label, text} entries, and
\* in each accepted input shape the normalized sequence has one entry per
\* item (a string or a mapping), in input order.
C3_SectionsShapeInvariant ==
    (Built /\ AcceptedShape) =>
      /\ \A data \in SecData :
           (\/ GivenSections = FormB(data)
            \/ GivenSections = FormC(data)
            \/ Unlabelled(data) /\ GivenSections = FormA(data))
             => rec.sections = Canon(data)
      /\ SectionData(GivenSections) =>
           /\ Len(rec.sections) = Len(GivenSections)
           /\ \A i \in 1 .. Len(GivenSections) :
                /\ GivenSections[i].k = "str" =>
                     rec.sections[i].text = Str(GivenSections[i].s)
                /\ GivenSections[i].k = "map" =>
                     rec.sections[i].text \in
                       {Raw(GivenSections[i].d, "text"),
                        Raw(GivenSections[i].d, "content"), Str("")}

C3_Witness ==
    /\ Built
    /\ brInput.sections =
         JsonFile(DictPV(With(EmptyDict, "sections",
                              List(FormC(<< <<"intro", "Hi">>, <<"", "Yo">> >>)))))
    /\ rec.sections = << [label |-> Str("intro"), text |-> Str("Hi")],
                         [label |-> Str("section"), text |-> Str("Yo")] >>

(***************************************************************************)
(* Headings of a markdown body, line by line.                              *)
(***************************************************************************)
RECURSIVE SplitLines(_)
SplitLines(cs) ==
    IF \A i \in 1 .. Len(cs) : cs[i] # NL THEN <<cs>>
    ELSE LET i == Min({j \in 1 .. Len(cs) : cs[j] = NL})
         IN  <<SubSeq(cs, 1, i - 1)>> \o SplitLines(SubSeq(cs, i + 1, Len(cs)))

\* A line that opens with exactly m '#' and then whitespace or nothing.
IsMarker(line, m) ==
    /\ Len(line) >= m
    /\ \A j \in 1 .. m : line[j] = "#"
    /\ Len(line) = m \/ IsWs(line[m + 1])

\* The text of the heading marked on line i: what follows the marker on its
\* line or, the line holding nothing more, the next line that is not blank.
MarkedText(lines, i, m) ==
    LET own   == Strip(SubSeq(lines[i], m + 1, Len(lines[i])))
        later == {j \in (i + 1) .. Len(lines) : Strip(lines[j]) # <<>>}
    IN  IF own # <<>> THEN own
        ELSE IF later # {} THEN Strip(lines[Min(later)])
        ELSE <<>>

HeadingLines(lines, m) ==
    {i \in 1 .. Len(lines) : IsMarker(lines[i], m) /\ MarkedText(lines, i, m) # <<>>}

BodyLines == SplitLines(clean_md(brInput.md))

NoTitleSupplied ==
    /\ ClaimEmpty(Raw(InMeta, "title"))
    /\ ClaimEmpty(Raw(InAnalysis, "title"))

\* C10 as stated: with no title from metadata or analysis, the title is the
\* text of the earliest level-1 or level-2 heading of the body, whichever
\* level it has, and the page id when the body has neither.
C10_TitleEarliestHeading ==
    (Built /\ NoTitleSupplied) =>
      LET h1 == HeadingLines(BodyLines, 1)
          h2 == HeadingLines(BodyLines, 2)
      IN  rec.title =
            IF h1 \cup h2 = {} THEN Str(brInput.stem)
            ELSE LET i == Min(h1 \cup h2)
                 IN  Str(Join(MarkedText(BodyLines, i, IF i \in h1 THEN 1 ELSE 2)))

\* C10 amended: with no title from metadata or analysis, the title is the
\* text of the first level-1 heading of the body if it has one, otherwise of
\* the first level-2 heading, and the page id when the body has neither.
C10_TitleLevel1First ==
    (Built /\ NoTitleSupplied) =>
      LET h1 == HeadingLines(BodyLines, 1)
          h2 == HeadingLines(BodyLines, 2)
      IN  rec.title =
            IF h1 # {} THEN Str(Join(MarkedText(BodyLines, Min(h1), 1)))
            ELSE IF h2 # {} THEN Str(Join(MarkedText(BodyLines, Min(h2), 2)))
            ELSE Str(brInput.stem)

C10_Witness ==
    /\ Built /\ NoTitleSupplied
    /\ brInput.md = <<"#", "#", " ", "B", NL, "#", " ", "A">>
    /\ rec.title = Str("A")

(***************************************************************************)
(* The packager's main and its writers.  A file name is a sequence of      *)
(* atoms, the separators "." and "_" atoms of their own.                   *)
(***************************************************************************)
LastIndex(name, sep) ==
    IF \E i \in 1 .. Len(name) : name[i] = sep
    THEN Max({i \in 1 .. Len(name) : name[i] = sep})
    ELSE 0

\* name.rsplit(sep, 1)[0]
RSplitHead(name, sep) ==
    IF LastIndex(name, sep) = 0 THEN name
    ELSE SubSeq(name, 1, LastIndex(name, sep) - 1)

\* stem_id(p) = p.name.rsplit(".", 1)[0]
stem_id(name) == Join(RSplitHead(name, "."))

\* main, line 175: p.name.rsplit("_", 1)[0]
analysis_stem(name) == Join(RSplitHead(name, "_"))

EndsWith(name, suffix) ==
    /\ Len(name) >= Len(suffix)
    /\ SubSeq(name, Len(name) - Len(suffix) + 1, Len(name)) = suffix

MdFile(dir, id, md) ==
    [dir |-> dir, name |-> id \o <<".", "md">>, md |-> md, json |-> NoFile]
JsonArtifact(dir, id, kind, file) ==
    [dir |-> dir, name |-> id \o <<"_", kind, ".", "json">>, md |-> <<>>, json |-> file]

\* EXTRACTOR_DIR.rglob("*.md"), EXTRACTOR_DIR.rglob("*_metadata.json")
MdFilesOf(dirFiles) == {f \in dirFiles : EndsWith(f.name, <<".", "md">>)}
MetaFilesOf(dirFiles) ==
    {f \in dirFiles : EndsWith(f.name, <<"_", "metadata", ".", "json">>)}

\* meta_files.get(stem, Path()): the metadata file keyed by stem_id of its
\* own name.  (The files drawn have distinct names.)
meta_lookup(dirFiles, stem) ==
    LET hits == {f \in MetaFilesOf(dirFiles) : stem_id(f.name) = stem}
    IN  IF hits = {} THEN NoFile ELSE (CHOOSE f \in hits : TRUE).json

AnalysisKinds == {"analysis", "metrics", "classification", "sections"}

\* analysis_map.get(stem, {}).get(kind, Path()) (lines 172-180)
analysis_lookup(dirFiles, stem, kind) ==
    LET hits == {f \in dirFiles :
                   /\ EndsWith(f.name, <<".", "json">>)
                   /\ f.name # <<"summary", ".", "json">>
                   /\ analysis_stem(f.name) = stem
                   /\ EndsWith(f.name, <<"_", kind, ".", "json">>)}
    IN  IF hits = {} THEN NoFile ELSE (CHOOSE f \in hits : TRUE).json

\* summary.json under ANALYSIS_DIR (lines 167-170)
summary_lookup(dirFiles) ==
    LET hits == {f \in dirFiles : f.name = <<"summary", ".", "json">>}
    IN  IF hits = {} THEN NoFile ELSE (CHOOSE f \in hits : TRUE).json

\* str.title() of the section labels the inputs carry.
TitleCase(s) ==
    CASE s = "section" -> "Section"
      [] s = "Section" -> "Section"
      [] s = "intro"   -> "Intro"
      [] s = "faq"     -> "Faq"
      [] s = "Hi"      -> "Hi"

\* write_page_md: the allow-listed front matter and the body.
PageDoc(r) ==
    [front |-> [id |-> r.id, url |-> r.url, title |-> r.title,
                page_type |-> r.page_type, scores |-> r.scores,
                images |-> r.images, links |-> r.links, structure |-> r.structure,
                word_count |-> r.word_count,
                reading_time_minutes |-> r.reading_time_minutes,
                recommendations |-> r.recommendations],
     source |-> r.raw_markdown,
     suggested |-> [i \in 1 .. Len(r.sections) |->
                      [heading |-> TitleCase(r.sections[i].label.s),
                       text |-> r.sections[i].text]]]

\* write_site_md: the optional summary header and one block per record.
SiteHeader(summary, n) ==
    IF summary.exists
    THEN <<[pages |-> GetDefault(load_json(summary).d, "pages", Num(n)),
            avg_quality |-> GetDefault(load_json(summary).d, "avg_quality", Str("?")),
            notes |-> GetDefault(load_json(summary).d, "notes", Str(""))]>>
    ELSE <<>>

SiteBlock(r) ==
    [title |-> r.title, url |-> r.url, page_type |-> r.page_type,
     quality |-> r.scores.quality, seo |-> r.scores.seo, source |-> r.raw_markdown]

NotWritten == [run |-> 0, header |-> <<>>, blocks |-> <<>>]

(***************************************************************************)
(* The directories the runs find.                                          *)
(***************************************************************************)
MaxRuns == 2

HomeMd   == MdFile("a", <<"home">>, <<"#", " ", "H">>)
HomeMd2  == MdFile("b", <<"home">>, <<"t">>)
AboutMd  == MdFile("a", <<"about">>, <<"#", "#", " ", "B">>)
HomeMeta ==
    JsonArtifact("a", <<"home">>, "metadata",
                 JsonFile(DictPV([url |-> Str("http://home"), word_count |-> Num(120),
                                  images |-> List(<<ElemStr("i.png")>>)])))

ExtractedFiles == {HomeMd, HomeMd2, AboutMd, HomeMeta}

AnalysisDirs ==
    { {},
      { JsonArtifact("", <<"home">>, "analysis", JsonFile(DictPV(AnalysisFull))),
        JsonArtifact("", <<"home">>, "metrics", JsonFile(DictPV(MetricsFull))),
        JsonArtifact("", <<"home">>, "classification", JsonFile(DictPV(ClassifyFull))),
        JsonArtifact("", <<"home">>, "sections", JsonFile(DictPV(SectionsFull))) },
      { JsonArtifact("", <<"home">>, "analysis", JsonFile(ListPV(<<>>))) },
      { JsonArtifact("", <<"about">>, "analysis", BadFile),
        [dir |-> "", name |-> <<"summary", ".", "json">>, md |-> <<>>,
         json |-> JsonFile(DictPV([notes |-> Str("n")]))] } }

RunInit ==
    /\ extracted \in SUBSET ExtractedFiles
    /\ analysisDir \in AnalysisDirs
    /\ pagesOut = << >>
    /\ siteMd = NotWritten
    /\ siteJsonl = [run |-> 0, lines |-> <<>>]
    /\ summaryMd = NoFile
    /\ pc = "idle"
    /\ md_files = <<>>
    /\ records = <<>>
    /\ exitCode = 0
    /\ runs = 0
    /\ allCompleted = TRUE
    /\ dpc = "idle"
    /\ dfiles = <<>>
    /\ dcount = 0
    /\ genOut = << >>
    /\ dexit = 0

packVars == <<pagesOut, siteMd, siteJsonl, summaryMd>>
driverVars == <<dpc, dfiles, dcount, genOut, dexit>>
dirVars == <<extracted, analysisDir>>

\* The orders in which rglob may yield a set of files.
Orders(S) ==
    {o \in [1 .. Cardinality(S) -> S] : \A i, j \in 1 .. Cardinality(S) : i # j => o[i] # o[j]}

\* main, lines 162-182: discovery, in whatever order the file system yields.
Discover ==
    /\ pc \in {"idle", "done", "crashed"}
    /\ dpc = "idle"
    /\ runs < MaxRuns
    /\ md_files' \in Orders(MdFilesOf(extracted))
    /\ records' = <<>>
    /\ runs' = runs + 1
    /\ pc' = "loop"
    /\ UNCHANGED <<packVars, driverVars, dirVars, exitCode, allCompleted, brVars, renderVars>>

\* One pass of the loop of lines 183-187: build_record, records.append,
\* write_page_md.  An exception of build_record ends the run.
ProcessPage ==
    /\ pc = "loop"
    /\ Len(records) < Len(md_files)
    /\ LET f    == md_files[Len(records) + 1]
           stem == stem_id(f.name)
           res  == build_record(stem, f.md,
                                meta_lookup(extracted, stem),
                                analysis_lookup(analysisDir, stem, "analysis"),
                                analysis_lookup(analysisDir, stem, "metrics"),
                                analysis_lookup(analysisDir, stem, "classification"),
                                analysis_lookup(analysisDir, stem, "sections"))
       IN  IF res.raised
           THEN /\ pc' = "crashed"
                /\ exitCode' = 1
                /\ allCompleted' = FALSE
                /\ UNCHANGED <<records, pagesOut>>
           ELSE /\ records' = Append(records, res.rec)
                /\ pagesOut' = [id \in DOMAIN pagesOut \cup {stem} |->
                                  IF id = stem THEN PageDoc(res.rec) ELSE pagesOut[id]]
                /\ UNCHANGED <<pc, exitCode, allCompleted>>
    /\ UNCHANGED <<siteMd, siteJsonl, summaryMd, md_files, runs, driverVars, dirVars,
                   brVars, renderVars>>

\* Lines 189-192: write_site_md (with summary.md), write_site_jsonl, return.
WriteAggregates ==
    /\ pc = "loop"
    /\ Len(records) = Len(md_files)
    /\ siteMd' = [run |-> runs,
                  header |-> SiteHeader(summary_lookup(analysisDir), Len(records)),
                  blocks |-> [i \in 1 .. Len(records) |-> SiteBlock(records[i])]]
    /\ summaryMd' = IF summary_lookup(analysisDir).exists
                    THEN summary_lookup(analysisDir) ELSE summaryMd
    /\ siteJsonl' = [run |-> runs, lines |-> records]
    /\ pc' = "done"
    /\ exitCode' = 0
    /\ UNCHANGED <<pagesOut, md_files, records, runs, allCompleted, driverVars, dirVars,
                   brVars, renderVars>>

\* Between two runs the extractor adds or removes a page or its metadata.
ExtractedChanges ==
    /\ pc \in {"done", "crashed"}
    /\ dpc = "idle"
    /\ runs < MaxRuns
    /\ \E f \in ExtractedFiles :
         extracted' = IF f \in extracted THEN extracted \ {f} ELSE extracted \cup {f}
    /\ pc' = "idle"
    /\ UNCHANGED <<analysisDir, packVars, md_files, records, exitCode, runs,
                   allCompleted, driverVars, brVars, renderVars>>

(***************************************************************************)
(* The template renderer.  A text is a sequence of atoms: a placeholder    *)
(* token, a loop marker, a newline, or a run of other characters;          *)
(* str.replace and the `in` test work on whole atoms.                      *)
(***************************************************************************)
Tok(key) == "{{" \o key \o "}}"
ForMarker == "{% for section in sections %}"
EndMarker == "{% endfor %}"
LabelKey == "section.label | title"
TextKey  == "section.text"

\* The two literals of lines 50 and 51.
FullPattern ==
    <<ForMarker, NL, "### ", Tok(LabelKey), NL, Tok(TextKey), NL, EndMarker>>
MinimalPattern == <<ForMarker, EndMarker>>

\* A piece of text as atoms: the empty string has none.
Atom(s) == IF s = "" THEN <<>> ELSE <<s>>

\* old in text
Contains(text, old) ==
    \E i \in 1 .. Len(text) - Len(old) + 1 : SubSeq(text, i, i + Len(old) - 1) = old

\* text.replace(old, new): every occurrence, leftmost first, none overlapping.
RECURSIVE Replace(_, _, _)
Replace(text, old, new) ==
    IF Len(text) < Len(old) THEN text
    ELSE IF SubSeq(text, 1, Len(old)) = old
         THEN new \o Replace(SubSeq(text, Len(old) + 1, Len(text)), old, new)
         ELSE <<Head(text)>> \o Replace(Tail(text), old, new)

\* The names of lines 24-35, in the order of the literal.
ConfigKeys ==
    <<"brand_name", "brand_voice", "reading_level", "primary_cta",
      "locations_emphasis", "company_name", "phone", "email", "address",
      "service_areas">>
ConfigKeySet == {ConfigKeys[i] : i \in DOMAIN ConfigKeys}

\* CONF[...][...] raises KeyError on a value the file lacks; service_areas
\* alone is read with a default.
RequiredConf == ConfigKeySet \ {"service_areas"}
ConfValue(conf, key) == IF key \in DOMAIN conf THEN conf[key] ELSE ""

\* Lines 24-36.
RECURSIVE SubstConf(_, _, _)
SubstConf(out, conf, i) ==
    IF i > Len(ConfigKeys) THEN out
    ELSE SubstConf(Replace(out, <<Tok(ConfigKeys[i])>>, Atom(ConfValue(conf, ConfigKeys[i]))),
                   conf, i + 1)

\* json.dumps(v, ensure_ascii=False)
Quoted(s) == "\"" \o s \o "\""
DumpsScalar(v) ==
    CASE v.k = "str" -> Quoted(v.s)
      [] v.k = "num" -> ToString(v.n)
      [] OTHER       -> "null"

RECURSIVE DumpsEntries(_, _)
DumpsEntries(d, keys) ==
    IF keys = <<>> THEN <<>>
    ELSE IF Head(keys) \in DOMAIN d
         THEN <<Quoted(Head(keys)) \o ": " \o DumpsScalar(d[Head(keys)])>>
                \o DumpsEntries(d, Tail(keys))
         ELSE DumpsEntries(d, Tail(keys))

RECURSIVE JoinComma(_)
JoinComma(ss) ==
    IF ss = <<>> THEN ""
    ELSE IF Len(ss) = 1 THEN Head(ss)
    ELSE Head(ss) \o ", " \o JoinComma(Tail(ss))

DumpsItem(e) ==
    CASE e.k = "str"  -> Quoted(e.s)
      [] e.k = "map"  -> "{" \o JoinComma(DumpsEntries(e.d, <<"label", "text">>)) \o "}"
      [] e.k = "pair" -> Quoted(e.s) \o ": " \o DumpsScalar(e.d.value)
      [] OTHER        -> "null"

dumps(v) ==
    CASE v.k = "list" -> "[" \o JoinComma([i \in DOMAIN v.l |-> DumpsItem(v.l[i])]) \o "]"
      [] v.k = "map"  -> "{" \o JoinComma([i \in DOMAIN v.l |-> DumpsItem(v.l[i])]) \o "}"
      [] OTHER        -> DumpsScalar(v)

\* Lines 39-42: the text put in place of a ctx key's token.
CtxText(v) == IF v.k \in {"list", "map"} THEN dumps(v) ELSE PyStr(v)

\* ctx is the sequence of its (key, value) items.
CtxKeys(ctx) == {ctx[i].key : i \in DOMAIN ctx}
CtxGet(ctx, key, default) ==
    IF key \in CtxKeys(ctx)
    THEN ctx[CHOOSE i \in DOMAIN ctx : ctx[i].key = key].value
    ELSE default

\* A variant of lines 38-42 that blanks the tokens no key resolved.
RECURSIVE SubstCtx_BlankUnresolved(_, _)
SubstCtx_BlankUnresolved(out, ctx) ==
    IF ctx = <<>>
    THEN SelectSeq(out, LAMBDA a : a \notin {Tok("zip"), Tok("title"), Tok("sections")})
    ELSE SubstCtx_BlankUnresolved(
             Replace(out, <<Tok(Head(ctx).key)>>, Atom(CtxText(Head(ctx).value))),
             Tail(ctx))

\* Lines 38-42.
RECURSIVE SubstCtx(_, _)
SubstCtx(out, ctx) ==
    IF ctx = <<>> THEN out
    ELSE SubstCtx(Replace(out, <<Tok(Head(ctx).key)>>, Atom(CtxText(Head(ctx).value))),
                  Tail(ctx))

RenderRaised == [raised |-> TRUE, out |-> <<>>]
Rendered(out) == [raised |-> FALSE, out |-> out]

\* A variant of lines 46-49 that leaves the label as it was given.
RECURSIVE BlockOf_Untitled(_)
BlockOf_Untitled(items) ==
    IF items = <<>> THEN Rendered(<<>>)
    ELSE LET s     == Head(items)
             label == GetDefault(s.d, "label", Str("Section"))
             text  == GetDefault(s.d, "text", Str(""))
             rest  == BlockOf_Untitled(Tail(items))
         IN  IF s.k # "map" \/ label.k # "str" \/ rest.raised THEN RenderRaised
             ELSE Rendered(<<"### ">> \o Atom(label.s) \o <<NL>>
                             \o Atom(PyStr(text)) \o <<NL, NL>> \o rest.out)

\* Lines 46-49 for a list: s.get on an item that is no mapping raises
\* AttributeError, and so does .title() on a label that is no string.
RECURSIVE BlockOf(_)
BlockOf(items) ==
    IF items = <<>> THEN Rendered(<<>>)
    ELSE LET s     == Head(items)
             label == GetDefault(s.d, "label", Str("Section"))
             text  == GetDefault(s.d, "text", Str(""))
             rest  == BlockOf(Tail(items))
         IN  IF s.k # "map" \/ label.k # "str" \/ rest.raised THEN RenderRaised
             ELSE Rendered(<<"### ">> \o Atom(TitleCase(label.s)) \o <<NL>>
                             \o Atom(PyStr(text)) \o <<NL, NL>> \o rest.out)

\* Lines 46-49: iterating a string gives its characters, a mapping its keys,
\* None or a number raises TypeError.
Block(sections) ==
    CASE sections.k = "list" -> BlockOf(sections.l)
      [] sections.k = "str"  -> IF sections.s = "" THEN Rendered(<<>>) ELSE RenderRaised
      [] sections.k = "map"  -> IF sections.l = <<>> THEN Rendered(<<>>) ELSE RenderRaised
      [] OTHER               -> RenderRaised

\* render(text, ctx), with the configuration it reads.
render(text, ctx, conf) ==
    IF ~(RequiredConf \subseteq DOMAIN conf) THEN RenderRaised
    ELSE LET out == SubstCtx(SubstConf(text, conf, 1), ctx)
         IN  IF Contains(out, <<Tok("sections")>>) \/ Contains(out, <<ForMarker>>)
             THEN LET block == Block(CtxGet(ctx, "sections", List(<<>>)))
                  IN  IF block.raised THEN RenderRaised
                      ELSE Rendered(Replace(Replace(out, FullPattern, block.out),
                                            MinimalPattern, block.out))
             ELSE Rendered(out)

\* Configurations: complete, without the optional list, without a required value.
FullConf == [key \in ConfigKeySet |-> "<" \o key \o ">"]
Without(conf, key) == [x \in DOMAIN conf \ {key} |-> conf[x]]
Confs == {FullConf, Without(FullConf, "service_areas"), Without(FullConf, "phone")}

\* No render call is being looked at.
RenderIdle ==
    /\ rText = <<>>
    /\ rCtx = <<>>
    /\ rResult = RenderRaised
    /\ rDone = FALSE

(***************************************************************************)
(* The generation driver's main.                                           *)
(***************************************************************************)
\* sorted(PAGES_DIR.glob("*.md")): the page ids in path order.
IdOrder == <<"about", "home">>
InSet(S, x) == x \in S
SortedIds(S) == SelectSeq(IdOrder, LAMBDA x : InSet(S, x))

\* What one `ollama run` can do: the stripped text it printed, or no process
\* at all (Popen raises, which nothing catches).
OllamaOutcomes ==
    { [spawned |-> TRUE,  out |-> "generated", err |-> FALSE],
      [spawned |-> TRUE,  out |-> "",          err |-> FALSE],
      [spawned |-> TRUE,  out |-> "",          err |-> TRUE],
      [spawned |-> FALSE, out |-> "",          err |-> TRUE] }

\* The two prompt templates, and the ctx of lines 87-99: its other keys,
\* read back from the front matter, do not decide whether render raises.
SYSTEM_TMPL == <<"You write for ", Tok("brand_name"), NL>>
USER_TMPL == <<"Page ", Tok("id"), NL>> \o FullPattern
DriverCtx(id) ==
    <<[key |-> "id", value |-> Str(id)], [key |-> "sections", value |-> List(<<>>)]>>

\* Lines 77-80: the page documents found, exit status 1 when there are none.
DriverStart ==
    /\ dpc = "idle"
    /\ pc \in {"idle", "done", "crashed"}
    /\ dfiles' = SortedIds(DOMAIN pagesOut)
    /\ dcount' = Cardinality(DOMAIN pagesOut)
    /\ IF DOMAIN pagesOut = {}
       THEN dpc' = "exited" /\ dexit' = 1
       ELSE dpc' = "loop" /\ dexit' = 0
    /\ UNCHANGED <<dirVars, packVars, pc, md_files, records, exitCode, runs,
                   allCompleted, genOut, brVars, renderVars>>

\* One pass of the loop of lines 82-103: the prompts are rendered, the
\* generator is called once, its output written under the page's id.
DriverPage ==
    /\ dpc = "loop"
    /\ dfiles # <<>>
    /\ \E o \in OllamaOutcomes :
         IF /\ ~render(SYSTEM_TMPL, <<>>, CONF).raised
            /\ ~render(USER_TMPL, DriverCtx(Head(dfiles)), CONF).raised
            /\ o.spawned
         THEN /\ genOut' = [id \in DOMAIN genOut \cup {Head(dfiles)} |->
                              IF id = Head(dfiles) THEN o.out ELSE genOut[id]]
              /\ dfiles' = Tail(dfiles)
              /\ UNCHANGED <<dpc, dexit>>
         ELSE /\ dpc' = "crashed"
              /\ dexit' = 1
              /\ UNCHANGED <<genOut, dfiles>>
    /\ UNCHANGED <<dirVars, packVars, pc, md_files, records, exitCode, runs,
                   allCompleted, dcount, brVars, renderVars>>

\* The loop is over and main returns.
DriverDone ==
    /\ dpc = "loop"
    /\ dfiles = <<>>
    /\ dpc' = "done"
    /\ dexit' = 0
    /\ UNCHANGED <<dirVars, packVars, pc, md_files, records, exitCode, runs,
                   allCompleted, dfiles, dcount, genOut, brVars, renderVars>>

RunNext ==
    \/ Discover
    \/ ProcessPage
    \/ WriteAggregates
    \/ ExtractedChanges
    \/ DriverStart
    \/ DriverPage
    \/ DriverDone

\* One build_record call, nothing else running.
RecordInit == BrInit /\ RunIdle /\ RenderIdle /\ CONF = FullConf

SpecRecord == RecordInit /\ [][BrNext]_vars

\* The two mains, over the files and the configuration they find.
PipelineInit == RunInit /\ BrIdle /\ RenderIdle /\ CONF \in Confs

SpecRun == PipelineInit /\ [][RunNext]_vars

(***************************************************************************)
(* Properties of the runs                                                  *)
(***************************************************************************)
\* The file of a directory whose whole name is <id>_<kind>.json.
NamedArtifact(dirFiles, id, kind) ==
    LET hits == {f \in dirFiles : Join(f.name) = id \o "_" \o kind \o ".json"}
    IN  IF hits = {} THEN NoFile ELSE (CHOOSE f \in hits : TRUE).json

PageId(f) == Join(SubSeq(f.name, 1, Len(f.name) - 2))
RecordIds == {records[i].id : i \in 1 .. Len(records)}

\* C4: the page id is the join key of all five artifact kinds: the record of
\* page X is built from X_metadata.json, X_analysis.json, X_metrics.json,
\* X_classification.json and X_sections.json wherever such a file exists.
C4_ArtifactsJoinById ==
    \A i \in 1 .. Len(records) :
      LET f == md_files[i]
          X == PageId(f)
      IN  records[i] =
            build_record(X, f.md,
                         NamedArtifact(extracted, X, "metadata"),
                         NamedArtifact(analysisDir, X, "analysis"),
                         NamedArtifact(analysisDir, X, "metrics"),
                         NamedArtifact(analysisDir, X, "classification"),
                         NamedArtifact(analysisDir, X, "sections")).rec

PackagerEnded == pc \in {"done", "crashed"}
DriverEnded   == dpc \in {"done", "exited", "crashed"}

\* C5: a page that fails never aborts a run: in the packager and in the
\* driver an output file is written for every page, failed ones included,
\* and a run ends abnormally only when it found no pages.
C5_PageFailureNeverAborts ==
    /\ (PackagerEnded /\ exitCode # 0) => md_files = <<>>
    /\ (DriverEnded /\ dexit # 0) => dcount = 0
    /\ (PackagerEnded /\ md_files # <<>>) =>
         \A i \in 1 .. Len(md_files) : PageId(md_files[i]) \in DOMAIN pagesOut
    /\ (DriverEnded /\ dcount # 0) => DOMAIN genOut = DOMAIN pagesOut

\* C6: a run that discovers no input pages aborts with a non-zero exit
\* status and writes no output, the packaging run and the generation run
\* alike.
C6_ZeroPagesAbort ==
    /\ (PackagerEnded /\ md_files = <<>>) =>
         /\ exitCode # 0
         /\ siteMd.run # runs
         /\ siteJsonl.run # runs
    /\ (DriverEnded /\ dcount = 0) =>
         /\ dexit # 0
         /\ genOut = << >>

\* C7: after any sequence of completed packager runs the persisted output
\* (page documents, site.md blocks, site.jsonl lines) holds exactly the
\* records of the latest run's pages; a page of an earlier run that the
\* latest run did not find has no document and no entry.
C7_RunReplacesOutput ==
    (pc = "done" /\ allCompleted /\ md_files # <<>>) =>
      /\ Len(records) = Len(md_files)
      /\ DOMAIN pagesOut = RecordIds
      /\ \A id \in DOMAIN pagesOut :
           \E i \in 1 .. Len(records) :
             records[i].id = id /\ pagesOut[id] = PageDoc(records[i])
      /\ siteJsonl.lines = records
      /\ siteMd.blocks = [i \in 1 .. Len(records) |-> SiteBlock(records[i])]

\* C8: within one run no two records share an id, and the number of
\* distinct page documents written equals the number of markdown files
\* found and the number of lines of site.jsonl.
C8_IdsUniqueOnePerPage ==
    pc = "done" =>
      /\ \A i, j \in 1 .. Len(records) : i # j => records[i].id # records[j].id
      /\ Cardinality(RecordIds) = Len(md_files)
      /\ Len(siteJsonl.lines) = Len(md_files)

(***************************************************************************)
(* render on its own: one call on a bounded template, ctx and             *)
(* configuration.                                                          *)
(***************************************************************************)
MaxParts == 2

\* What a template is put together from.
TemplateParts ==
    { <<"Hello ">>, <<Tok("title")>>, <<Tok("phone")>>, <<Tok("zip")>>,
      <<Tok("sections")>>, FullPattern, MinimalPattern, <<ForMarker, NL>>,
      <<ForMarker, NL, Tok(TextKey), NL, EndMarker>> }

RECURSIVE Concat(_)
Concat(parts) == IF parts = <<>> THEN <<>> ELSE Head(parts) \o Concat(Tail(parts))

Templates == {Concat(ps) : ps \in SeqsUpTo(TemplateParts, MaxParts)}

Section(label, text) == ElemMap(With(With(EmptyDict, "label", label), "text", text))

TitleValues == {Missing, Str("T"), Null, List(<<ElemStr("a")>>)}
TextKeyValues == {Missing, Str("x")}
SectionsValues ==
    { Missing, List(<<>>),
      List(<<Section(Str("intro"), Str("Hi"))>>),
      List(<<Section(Missing, Missing), Section(Str("faq"), Num(3))>>),
      List(<<ElemStr("intro")>>),
      List(<<Section(Null, Str("Hi"))>>) }

Item(key, v) == IF v = Missing THEN <<>> ELSE <<[key |-> key, value |-> v]>>

Contexts ==
    { Item("title", t) \o Item(TextKey, x) \o Item("sections", s) :
        t \in TitleValues, x \in TextKeyValues, s \in SectionsValues }

RenderInputs ==
    /\ rText \in Templates
    /\ rCtx \in Contexts
    /\ CONF \in Confs
    /\ rResult = RenderRaised
    /\ rDone = FALSE

Render ==
    /\ ~rDone
    /\ rResult' = render(rText, rCtx, CONF)
    /\ rDone' = TRUE
    /\ UNCHANGED <<CONF, rText, rCtx, brVars, runVars>>

RenderNext == Render

RenderInit == RenderInputs /\ BrIdle /\ RunIdle

SpecRender == RenderInit /\ [][RenderNext]_vars

(***************************************************************************)
(* Properties of render                                                    *)
(***************************************************************************)
PlaceholderNames == {"title", "phone", "zip", "sections", LabelKey, TextKey}

\* The tokens of the given names, as they stand in a text.
Kept(text, names) == SelectSeq(text, LAMBDA a : \E K \in names : a = Tok(K))

NotInCtx == PlaceholderNames \ CtxKeys(rCtx)

RECURSIVE IsSubSeq(_, _)
IsSubSeq(s, t) ==
    IF s = <<>> THEN TRUE
    ELSE IF t = <<>> THEN FALSE
    ELSE IF Head(s) = Head(t) THEN IsSubSeq(Tail(s), Tail(t))
    ELSE IsSubSeq(s, Tail(t))

ConfComplete == RequiredConf \subseteq DOMAIN CONF

\* Every item of ctx's sections is a mapping whose label, where it has one,
\* is a string.
SectionsRenderable ==
    LET v == CtxGet(rCtx, "sections", List(<<>>))
    IN  /\ v.k = "list"
        /\ \A i \in DOMAIN v.l :
             /\ v.l[i].k = "map"
             /\ GetDefault(v.l[i].d, "label", Str("Section")).k = "str"

Unresolved == NotInCtx \ ConfigKeySet

Substituted == SubstCtx(SubstConf(rText, CONF, 1), rCtx)

\* The places of text where pat stands, and the places inside one of them.
Occurrences(text, pat) ==
    {i \in 1 .. Len(text) - Len(pat) + 1 : SubSeq(text, i, i + Len(pat) - 1) = pat}
Inside(text, pat, j) ==
    \E i \in Occurrences(text, pat) : i < j /\ j < i + Len(pat)

\* text with new standing wherever pat stood, everything else as it was.
InPlaceOf(text, pat, new) ==
    Concat([j \in 1 .. Len(text) |->
              IF j \in Occurrences(text, pat) THEN new
              ELSE IF Inside(text, pat, j) THEN <<>>
              ELSE <<text[j]>>])

\* One heading/body pair per entry, in order, the label title-cased.
HeadingBodyPairs(items) ==
    Concat([i \in DOMAIN items |->
              <<"### ">>
                \o Atom(TitleCase(GetDefault(items[i].d, "label", Str("Section")).s))
                \o <<NL>>
                \o Atom(PyStr(GetDefault(items[i].d, "text", Str(""))))
                \o <<NL, NL>>])

Pairs == HeadingBodyPairs(CtxGet(rCtx, "sections", List(<<>>)).l)

RenderReturned == rDone /\ ~rResult.raised
HasFull == Contains(Substituted, FullPattern)
HasBare == Contains(Substituted, MinimalPattern)

\* C11 as stated: the full repeated block becomes one heading/body pair per
\* entry of ctx's sections, in order, labels title-cased; a bare for/endfor
\* marker pair is only removed, whatever sections holds; a text with neither
\* form leaves the step as it entered.
C11_SectionRepetition ==
    RenderReturned =>
      /\ (HasFull /\ ~HasBare) =>
            rResult.out = InPlaceOf(Substituted, FullPattern, Pairs)
      /\ (HasBare /\ ~HasFull) =>
            rResult.out = InPlaceOf(Substituted, MinimalPattern, <<>>)
      /\ (~HasFull /\ ~HasBare) => rResult.out = Substituted

\* C11, amended: the bare marker pair too is replaced by the heading/body
\* pairs of ctx's sections (by nothing only when sections is empty): the
\* output is the substituted text with the pairs in place of every full
\* block and then of every bare marker pair, and nothing else changed.
C11_SectionRepetitionBareExpands ==
    RenderReturned =>
      rResult.out =
        InPlaceOf(InPlaceOf(Substituted, FullPattern, Pairs), MinimalPattern, Pairs)

\* A full block and a bare marker pair rendered over two sections: the two
\* pairs stand in place of each.
C11_Witness ==
    /\ RenderReturned
    /\ rText = FullPattern \o MinimalPattern
    /\ Len(CtxGet(rCtx, "sections", List(<<>>)).l) = 2
    /\ rResult.out = Pairs \o Pairs
    /\ Pairs = <<"### ", "Section", NL, NL, NL, "### ", "Faq", NL, "3", NL, NL>>

====
